---- MODULE Spec2Model ----
(***************************************************************************)
(* A model of setup.py of python-gssapi: the choice of the source format,  *)
(* the choice and construction of the platform configuration, the walk of  *)
(* the module catalogue that builds the list of extensions handed to       *)
(* setup(), the sdist hook and the ext_modules property of the             *)
(* distribution class.                                                     *)
(*                                                                         *)
(* Text the script inspects character by character (linker arguments, the  *)
(* macOS version) is a sequence of one-character strings; where a long     *)
(* literal is needed, the characters after the ones the script inspects    *)
(* may be written as one multi-character element.  Text it only            *)
(* concatenates or compares (module names, source paths) is a TLA+ string. *)
(* An optional value (None, an unset environment variable) is the empty    *)
(* sequence, a present value v is <<v>>.                                   *)
(***************************************************************************)
EXTENDS Naturals, Sequences, FiniteSets, TLC

VARIABLES
    pc,               \* position of the script / of the hook
    host,             \* what the script reads from the machine it runs on
    environ,          \* os.environ: the variables the script reads
    markerFile,       \* whether SKIP_CYTHON_FILE exists in the working tree
    SOURCE_EXT,       \* <<>> until chosen, then <<"pyx">> or <<"c">>
    variant,          \* <<>> until chosen, then <<the name of the Config class>>
    config,           \* <<>> until constructed, then <<the Config object>>
    probe,            \* what Config.__init__ did to find and load the library
    raised,           \* <<>> or <<the exception that ended the script>>
    idx,              \* number of catalogue entries / mechanisms evaluated
    lst,              \* the list literal passed to gssapi_modules, so far
    ENUM_EXTS,        \* the module-level list of companion extensions
    res,              \* the local list of gssapi_modules
    ext_modules,      \* <<>> or <<the list handed to setup()>>
    stdout,           \* the modules named in skip diagnostics, in order
    missing,          \* source paths os.path.exists reported absent
    sdistState,       \* state of the working tree around sdist_gssapi.run
    dist              \* the GSSAPIDistribution object and its observers

vars == <<pc, host, environ, markerFile, SOURCE_EXT, variant, config, probe,
          raised, idx, lst,
          ENUM_EXTS, res, ext_modules, stdout, missing, sdistState, dist>>

None == <<>>
Some(v) == <<v>>
IsNone(o) == o = <<>>
Val(o) == o[1]

----------------------------------------------------------------------------
(* Character-level text.                                                   *)

StartsWith(s, p) == Len(s) >= Len(p) /\ SubSeq(s, 1, Len(p)) = p

\* arg[n:] of Python, n >= 0
DropFirst(s, n) == IF Len(s) <= n THEN <<>> ELSE SubSeq(s, n + 1, Len(s))

RECURSIVE SplitOn(_, _, _)
\* str.split(sep) for a one-character sep: empty fields are kept.
\* cur is the field being read.
SplitOn(s, sep, cur) ==
    IF s = <<>> THEN <<cur>>
    ELSE IF Head(s) = sep THEN <<cur>> \o SplitOn(Tail(s), sep, <<>>)
    ELSE SplitOn(Tail(s), sep, Append(cur, Head(s)))

\* shlex.split on text without quotes, escapes or comments: the maximal runs
\* of non-blank characters.
shlex_split(s) == SelectSeq(SplitOn(s, " ", <<>>), LAMBDA t : t # <<>>)

RECURSIVE JoinChars(_, _)
JoinChars(toks, sep) ==
    IF toks = <<>> THEN <<>>
    ELSE IF Len(toks) = 1 THEN toks[1]
    ELSE toks[1] \o <<sep>> \o JoinChars(Tail(toks), sep)

\* os.path.join(a, b) for a relative b
path_join(a, b) ==
    IF a = <<>> THEN b
    ELSE IF a[Len(a)] = "/" THEN a \o b
    ELSE a \o <<"/">> \o b

----------------------------------------------------------------------------
(* Source format (lines 20-32).                                            *)

SelectSourceExtIgnoringMarker(marker, cython) == IF cython THEN "pyx" ELSE "c"

SelectSourceExt(marker, cython) ==
    IF marker THEN "c"
    ELSE IF cython THEN "pyx"
    ELSE "c"

----------------------------------------------------------------------------
(* Choice of the configuration class (lines 225-234).                      *)

DigitVal == [c \in {"0", "1", "2", "3", "4", "5", "6", "7", "8", "9"} |->
    CASE c = "0" -> 0 [] c = "1" -> 1 [] c = "2" -> 2 [] c = "3" -> 3
      [] c = "4" -> 4 [] c = "5" -> 5 [] c = "6" -> 6 [] c = "7" -> 7
      [] c = "8" -> 8 [] c = "9" -> 9]

RECURSIVE DecimalValue(_, _)
DecimalValue(s, acc) ==
    IF s = <<>> THEN acc
    ELSE DecimalValue(Tail(s), 10 * acc + DigitVal[Head(s)])

\* int(v) on a string of decimal digits: None stands for ValueError
int(v) ==
    IF v = <<>> \/ \E i \in 1..Len(v) : v[i] \notin DOMAIN DigitVal
    THEN None
    ELSE Some(DecimalValue(v, 0))

\* Python's >= on two lists of integers: the first difference decides, and a
\* proper prefix is smaller than the list it is a prefix of.
RECURSIVE ListGE(_, _)
ListGE(a, b) ==
    IF b = <<>> THEN TRUE
    ELSE IF a = <<>> THEN FALSE
    ELSE IF Head(a) # Head(b) THEN Head(a) > Head(b)
    ELSE ListGE(Tail(a), Tail(b))

\* [int(v) for v in platform.mac_ver()[0].split('.')]: None stands for ValueError
MacVerList(mac_ver) ==
    LET fields == SplitOn(mac_ver, ".", <<>>) IN
    IF \E i \in 1..Len(fields) : IsNone(int(fields[i]))
    THEN None
    ELSE Some([i \in 1..Len(fields) |-> Val(int(fields[i]))])

MIN_DARWIN == <<10, 7, 0>>

\* The if/elif chain.  The version is parsed only when the first test fails
\* and the platform is darwin.
ChooseVariant(os_name, sys_platform, mac_ver) ==
    IF os_name = "nt" THEN [raised |-> None, variant |-> Some("WindowsConfig")]
    ELSE IF sys_platform = "darwin" /\ IsNone(MacVerList(mac_ver))
    THEN [raised |-> Some("ValueError"), variant |-> None]
    ELSE IF sys_platform = "darwin" /\ ListGE(Val(MacVerList(mac_ver)), MIN_DARWIN)
    THEN [raised |-> None, variant |-> Some("DarwinGSSFrameWorkConfig")]
    ELSE IF sys_platform = "msys"
    THEN [raised |-> None, variant |-> Some("MSYSConfig")]
    ELSE [raised |-> None, variant |-> Some("Config")]

----------------------------------------------------------------------------
(* Config and its subclasses (lines 41-222).                               *)

\* shsplit of Config.__init__: a list is kept, a string is shlex.split
shsplit(value) == IF value.list THEN value.v ELSE shlex_split(value.v)

AsList(toks) == [list |-> TRUE, v |-> toks]
AsStr(text) == [list |-> FALSE, v |-> text]

\* os.environ.get(name) or default: an unset and an empty variable both give
\* the default
Truthy(o) == ~IsNone(o) /\ Val(o) # <<>>

PartitionKeepingPrefix(tokens) ==
    [library_dirs |-> SelectSeq(tokens, LAMBDA t : StartsWith(t, <<"-", "L">>)),
     libraries    |-> SelectSeq(tokens, LAMBDA t : StartsWith(t, <<"-", "l">>)),
     link_args    |-> SelectSeq(tokens, LAMBDA t :
                          ~StartsWith(t, <<"-", "L">>) /\ ~StartsWith(t, <<"-", "l">>))]

RECURSIVE PartitionLoop(_, _)
\* the for loop of lines 54-60; acc holds the three lists built so far
PartitionLoop(tokens, acc) ==
    IF tokens = <<>> THEN acc
    ELSE LET arg == Head(tokens) IN
         PartitionLoop(Tail(tokens),
            IF StartsWith(arg, <<"-", "L">>)
            THEN [acc EXCEPT !.library_dirs = Append(@, DropFirst(arg, 2))]
            ELSE IF StartsWith(arg, <<"-", "l">>)
            THEN [acc EXCEPT !.libraries = Append(@, DropFirst(arg, 2))]
            ELSE [acc EXCEPT !.link_args = Append(@, arg)])

Partition(tokens) ==
    PartitionLoop(tokens, [library_dirs |-> <<>>, libraries |-> <<>>, link_args |-> <<>>])

GSSAPI_PREFIX == <<"g", "s", "s", "a", "p", "i">>

\* next(..., default) and the first return of a for loop: the first of the
\* elements selected, or None
FirstOf(hits) == IF hits = <<>> THEN None ELSE Some(hits[1])

\* os.path.splitext(name)[0]: the name up to its last dot, when that dot is
\* not the first character
splitext_root(name) ==
    LET dots == {i \in 2..Len(name) : name[i] = "."} IN
    IF dots = {} THEN name
    ELSE SubSeq(name, 1, (CHOOSE i \in dots : \A j \in dots : j <= i) - 1)

\* WindowsConfig._find_krb (lines 179-189): None stands for OSError
find_krb(h) ==
    IF h.pf_krb_exists THEN Some(h.pf_krb_path) ELSE h.kinit_root

\* _default_link_args of the class, before shsplit.  None stands for the
\* exception of a failing krb5-config.
default_link_args(cls, h, env) ==
    CASE cls = "DarwinGSSFrameWorkConfig" ->
            Some(AsList(<< <<"-", "f", "ramework">>, <<"G", "S", "S">> >>))
      [] cls = "WindowsConfig" ->
            LET libs == path_join(path_join(Val(find_krb(h)), <<"l", "i", "b">>),
                                  IF h.ARCH = 64 THEN <<"a", "m", "d", "6", "4">>
                                  ELSE <<"i", "3", "8", "6">>) IN
            Some(AsList(<< <<"-", "L">> \o libs >> \o
                        [i \in 1..Len(h.win_libs) |->
                            <<"-", "l">> \o splitext_root(h.win_libs[i])]))
      [] cls = "MSYSConfig" /\ Truthy(env.MINGW_PREFIX) ->
            Some(AsList(<< <<"-", "l", "g", "s", "s">> >>))
      [] OTHER ->
            IF IsNone(h.krb5_libs) THEN None ELSE Some(AsStr(Val(h.krb5_libs)))

default_compile_args(cls, h, env) ==
    CASE cls = "DarwinGSSFrameWorkConfig" ->
            Some(AsList(<< <<"-", "f", "ramework">>, <<"G", "S", "S">>,
                           <<"-", "D", "OSX_HAS_GSS_FRAMEWORK">> >>))
      [] cls = "WindowsConfig" ->
            Some(AsList(<< <<"-", "I">> \o path_join(Val(find_krb(h)),
                                             <<"i", "n", "c", "l", "u", "d", "e">>),
                           <<"-", "D", "MS_WIN64">> >>))
      [] cls = "MSYSConfig" /\ Truthy(env.MINGW_PREFIX) ->
            Some(AsList(<< <<"-", "f", "P", "I", "C">> >>))
      [] OTHER ->
            IF IsNone(h.krb5_cflags) THEN None ELSE Some(AsStr(Val(h.krb5_cflags)))

\* _gssapi_lib_path of the class, for a Config whose lists are in part
gssapi_lib_path(cls, part, h, env) ==
    CASE cls = "DarwinGSSFrameWorkConfig" -> h.find_library_GSS
      [] cls = "WindowsConfig" ->
            LET opt == FirstOf(SelectSeq(part.libraries, LAMBDA o : StartsWith(o, GSSAPI_PREFIX))) IN
            IF IsNone(opt) THEN None
            ELSE Some(path_join(path_join(Val(find_krb(h)), <<"b", "i", "n">>),
                                Val(opt) \o <<".", "d", "l", "l">>))
      [] cls = "MSYSConfig" /\ Truthy(env.MINGW_PREFIX) ->
            Some(Val(env.MINGW_PREFIX) \o <<"/", "bin/libgss-3.dll">>)
      [] cls = "MSYSConfig" /\ ~Truthy(env.MINGW_PREFIX) ->
            IF h.mingw_lib_exists
            THEN Some(<<"/", "mingw", IF h.ARCH = 64 THEN "64" ELSE "32", "/bin/libgss-3.dll">>)
            ELSE None
      [] OTHER ->
            LET wl == FirstOf(SelectSeq(part.link_args,
                                LAMBDA o : StartsWith(o, <<"-", "W", "l", ",", "/">>)))
                main_path == IF IsNone(wl) THEN <<>> ELSE DropFirst(Val(wl), 4)
                opt == FirstOf(SelectSeq(part.libraries, LAMBDA o : StartsWith(o, GSSAPI_PREFIX)))
            IN IF IsNone(opt) THEN None
               ELSE Some(path_join(main_path, <<"l", "i", "b">> \o Val(opt) \o <<".", "s", "o">>))

\* str.lower() on the values GSSAPI_SUPPORT_DETECT takes in this model
lower(s) ==
    CASE s \in {"true", "True", "TRUE", "tRuE"} -> "true"
      [] s \in {"false", "False", "FALSE"} -> "false"
      [] OTHER -> s

EnableSupportDetectExact(env) ==
    IF IsNone(env.GSSAPI_SUPPORT_DETECT) THEN TRUE
    ELSE Val(env.GSSAPI_SUPPORT_DETECT) = "true"

\* lines 72-73
EnableSupportDetect(env) ==
    lower(IF IsNone(env.GSSAPI_SUPPORT_DETECT) THEN "true"
          ELSE Val(env.GSSAPI_SUPPORT_DETECT)) = "true"

NoProbe == [main_lib |-> None, resolved |-> FALSE, cdll_calls |-> <<>>]

Failed(exc, pr) == [raised |-> Some(exc), obj |-> None, probe |-> pr]

\* lines 75-89, for a Config whose lists are in part and compile_args in cargs
DetectSupport(cls, part, cargs, h, env) ==
    LET obj(lib) == [cls |-> cls,
                     library_dirs |-> part.library_dirs,
                     libraries |-> part.libraries,
                     link_args |-> part.link_args,
                     compile_args |-> cargs,
                     enable_support_detect |-> EnableSupportDetect(env),
                     gssapi_lib |-> lib]
    IN
    IF EnableSupportDetect(env)
    THEN LET main_lib == IF ~IsNone(env.GSSAPI_MAIN_LIB) THEN env.GSSAPI_MAIN_LIB
                         ELSE gssapi_lib_path(cls, part, h, env)
             pr == [main_lib |-> main_lib, resolved |-> TRUE, cdll_calls |-> <<>>]
         IN IF IsNone(main_lib) THEN Failed("Exception", pr)
            ELSE LET called == [pr EXCEPT !.cdll_calls = <<Val(main_lib)>>] IN
                 IF ~h.cdll_loads THEN Failed("OSError", called)
                 ELSE [raised |-> None,
                       obj |-> Some(obj(Some([symbols |-> h.lib_symbols]))),
                       probe |-> called]
    ELSE [raised |-> None, obj |-> Some(obj(None)), probe |-> NoProbe]

\* Config.__init__ (lines 42-89)
ConfigInit(cls, h, env) ==
    LET useEnvLink == Truthy(env.GSSAPI_LINKER_ARGS)
        useEnvComp == Truthy(env.GSSAPI_COMPILER_ARGS)
    IN
    IF ~useEnvLink /\ IsNone(default_link_args(cls, h, env))
    THEN Failed("CalledProcessError", NoProbe)
    ELSE IF ~useEnvComp /\ IsNone(default_compile_args(cls, h, env))
    THEN Failed("CalledProcessError", NoProbe)
    ELSE
    LET raw == IF useEnvLink THEN AsStr(Val(env.GSSAPI_LINKER_ARGS))
               ELSE Val(default_link_args(cls, h, env))
        part == Partition(shsplit(raw))
        craw == IF useEnvComp THEN AsStr(Val(env.GSSAPI_COMPILER_ARGS))
                ELSE Val(default_compile_args(cls, h, env))
        cargs == shsplit(craw) \o
                 (IF h.ext_h_exists THEN << <<"-", "D", "HAS_GSSAPI_EXT_H">> >> ELSE <<>>)
    IN DetectSupport(cls, part, cargs, h, env)

\* The constructor of the chosen class (lines 149-152, 205-208)
Construct(cls, h, env) ==
    IF cls = "WindowsConfig" /\ IsNone(find_krb(h))
    THEN Failed("OSError", NoProbe)
    ELSE LET r == ConfigInit(cls, h, env) IN
         IF cls = "MSYSConfig" /\ ~IsNone(r.obj)
         THEN [r EXCEPT !.obj = Some([Val(r.obj) EXCEPT
                    !.compile_args = Append(@, <<"-", "D", "__MSYS__">>)])]
         ELSE r

----------------------------------------------------------------------------
(* Extensions (lines 122-135, 289-328) and the catalogue (lines 369-398).  *)

\* A name format is written without its trailing %s.
FMT_MAIN == "gssapi.raw."
FMT_EXT == "gssapi.raw.ext_"
FMT_ENUM == "gssapi.raw._enum_extensions.ext_"
FMT_MECH == "gssapi.raw.mech_"

\* name_fmt % module
Format(name_fmt, module) == name_fmt \o module

\* name_fmt.replace('.', '/') on the formats the script uses
ReplaceDots(name_fmt) ==
    CASE name_fmt = FMT_MAIN -> "gssapi/raw/"
      [] name_fmt = FMT_EXT -> "gssapi/raw/ext_"
      [] name_fmt = FMT_ENUM -> "gssapi/raw/_enum_extensions/ext_"
      [] name_fmt = FMT_MECH -> "gssapi/raw/mech_"

\* line 124
SourcePath(name_fmt, module, source_ext) ==
    Format(ReplaceDots(name_fmt), module) \o "." \o source_ext

Extension(cfg, name_fmt, module, source_ext, include_dirs) ==
    [name |-> Format(name_fmt, module),
     extra_link_args |-> cfg.link_args,
     extra_compile_args |-> cfg.compile_args,
     library_dirs |-> cfg.library_dirs,
     libraries |-> cfg.libraries,
     sources |-> <<SourcePath(name_fmt, module, source_ext)>>,
     include_dirs |-> include_dirs]

make_extension_unchecked(cfg, name_fmt, module, source_ext, include_dirs, exists) ==
    [raised |-> None, ext |-> Some(Extension(cfg, name_fmt, module, source_ext, include_dirs))]

\* Config.make_extension; exists is the answer of os.path.exists(source)
make_extension(cfg, name_fmt, module, source_ext, include_dirs, exists) ==
    IF ~exists
    THEN [raised |-> Some("OSError"), ext |-> None]
    ELSE [raised |-> None,
          ext |-> Some(Extension(cfg, name_fmt, module, source_ext, include_dirs))]

Main(m) == [kind |-> "main", module |-> m, canary |-> ""]
Ext(m, canary) == [kind |-> "ext", module |-> m, canary |-> canary]

\* the list literal of lines 369-398, in evaluation order
CATALOGUE == <<
    Main("misc"), Main("exceptions"), Main("creds"), Main("names"),
    Main("sec_contexts"), Main("types"), Main("message"), Main("oids"),
    Main("cython_converters"), Main("chan_bindings"),
    Ext("s4u", "gss_acquire_cred_impersonate_name"),
    Ext("cred_store", "gss_store_cred_into"),
    Ext("rfc5587", "gss_indicate_mechs_by_attrs"),
    Ext("rfc5588", "gss_store_cred"),
    Ext("rfc5801", "gss_inquire_saslname_for_mech"),
    Ext("cred_imp_exp", "gss_import_cred"),
    Ext("dce", "gss_wrap_iov"),
    Ext("iov_mic", "gss_get_mic_iov"),
    Ext("ggf", "gss_inquire_sec_context_by_oid"),
    Ext("set_cred_opt", "gss_set_cred_option"),
    Ext("rfc6680", "gss_display_name_ext"),
    Ext("rfc6680_comp_oid", "GSS_C_NT_COMPOSITE_EXPORT"),
    Ext("password", "gss_acquire_cred_with_password"),
    Ext("password_add", "gss_add_cred_with_password") >>

\* hasattr(config.gssapi_lib, canary): no attribute of None is a canary
hasattr(lib, canary) == ~IsNone(lib) /\ canary \in Val(lib).symbols

SkipsWhenPresent(cfg, canary) ==
    cfg.enable_support_detect /\ hasattr(cfg.gssapi_lib, canary)

\* the test of line 297
Skips(cfg, canary) ==
    cfg.enable_support_detect /\ ~hasattr(cfg.gssapi_lib, canary)

RECURSIVE Flat(_)
\* the text of a sequence of pieces, as one string
Flat(pieces) == IF pieces = <<>> THEN "" ELSE Head(pieces) \o Flat(Tail(pieces))

MechsDroppingEmpty(env) ==
    LET value == IF IsNone(env.GSSAPI_MECHS) THEN <<"krb5">> ELSE Val(env.GSSAPI_MECHS)
        fields == SplitOn(value, ",", <<>>)
    IN SelectSeq([i \in 1..Len(fields) |-> Flat(fields[i])], LAMBDA m : m # "")

\* os.environ.get('GSSAPI_MECHS', 'krb5').split(',') (line 322)
Mechs(env) ==
    LET value == IF IsNone(env.GSSAPI_MECHS) THEN <<"krb5">> ELSE Val(env.GSSAPI_MECHS)
        fields == SplitOn(value, ",", <<>>)
    IN [i \in 1..Len(fields) |-> Flat(fields[i])]

\* line 317: an entry of the list is None or <<extension>>
FilterNone(l) ==
    LET kept == SelectSeq(l, LAMBDA mod : ~IsNone(mod)) IN
    [i \in 1..Len(kept) |-> Val(kept[i])]

ExtendFront(r, exts) == exts \o r

\* list.extend
Extend(r, exts) == r \o exts

----------------------------------------------------------------------------
(* The script, top to bottom.                                              *)

\* bound on the canary symbols the loaded library lacks
MaxAbsent == 1

Abort(exc) ==
    /\ pc' = "aborted"
    /\ raised' = Some(exc)

\* lines 22-32
SelectSourceExtStep ==
    /\ pc = "source_ext"
    /\ SOURCE_EXT' = Some(SelectSourceExt(markerFile, host.cython_importable))
    /\ pc' = "choose_config"
    /\ UNCHANGED <<host, environ, markerFile, variant, config, probe, raised, idx, lst,
                   ENUM_EXTS, res, ext_modules, stdout, missing, sdistState, dist>>

\* lines 226-234: the class is chosen, the object is constructed next
ChooseConfig ==
    /\ pc = "choose_config"
    /\ LET r == ChooseVariant(host.os_name, host.sys_platform, host.mac_ver) IN
       IF ~IsNone(r.raised)
       THEN Abort(Val(r.raised)) /\ UNCHANGED variant
       ELSE pc' = "config_init" /\ variant' = r.variant /\ UNCHANGED raised
    /\ UNCHANGED <<host, environ, markerFile, SOURCE_EXT, config, probe, idx, lst,
                   ENUM_EXTS, res, ext_modules, stdout, missing, sdistState, dist>>

ConstructConfig ==
    /\ pc = "config_init"
    /\ LET r == Construct(Val(variant), host, environ) IN
       /\ probe' = r.probe
       /\ IF ~IsNone(r.raised)
          THEN Abort(Val(r.raised)) /\ UNCHANGED config
          ELSE pc' = "catalogue" /\ config' = r.obj /\ UNCHANGED raised
    /\ UNCHANGED <<host, environ, markerFile, SOURCE_EXT, variant, idx, lst,
                   ENUM_EXTS, res, ext_modules, stdout, missing, sdistState, dist>>

\* The sources of the extensions created so far exist and a path found
\* missing stays missing; any other path may or may not exist.  The
\* companion sources that exist are those of host.enum_sources.
Created == {lst[i][1] : i \in {j \in 1..Len(lst) : ~IsNone(lst[j])}}
             \cup {ENUM_EXTS[i] : i \in 1..Len(ENUM_EXTS)}
             \cup {res[i] : i \in 1..Len(res)}

ExistsAnswers(path) ==
    IF \E e \in Created : e.sources = <<path>> THEN {TRUE}
    ELSE IF path \in missing THEN {FALSE}
    ELSE BOOLEAN

\* main_file(module) (lines 289-290), for the next entry of the list literal
MainFile ==
    /\ pc = "catalogue"
    /\ idx < Len(CATALOGUE)
    /\ CATALOGUE[idx + 1].kind = "main"
    /\ LET module == CATALOGUE[idx + 1].module
           path == SourcePath(FMT_MAIN, module, Val(SOURCE_EXT))
       IN \E exists \in ExistsAnswers(path) :
          LET r == make_extension(Val(config), FMT_MAIN, module, Val(SOURCE_EXT), <<>>, exists) IN
          /\ missing' = IF exists THEN missing ELSE missing \cup {path}
          /\ IF ~IsNone(r.raised)
             THEN Abort(Val(r.raised)) /\ UNCHANGED <<idx, lst>>
             ELSE /\ lst' = Append(lst, r.ext)
                  /\ idx' = idx + 1
                  /\ UNCHANGED <<pc, raised>>
    /\ UNCHANGED <<host, environ, markerFile, SOURCE_EXT, variant, config, probe,
                   ENUM_EXTS, res, ext_modules, stdout, sdistState, dist>>

\* extension_file(module, canary) (lines 296-312), for the next entry
ExtensionFile ==
    /\ pc = "catalogue"
    /\ idx < Len(CATALOGUE)
    /\ CATALOGUE[idx + 1].kind = "ext"
    /\ LET module == CATALOGUE[idx + 1].module
           canary == CATALOGUE[idx + 1].canary
           enumPath == SourcePath(FMT_ENUM, module, Val(SOURCE_EXT))
           path == SourcePath(FMT_EXT, module, Val(SOURCE_EXT))
       IN
       IF Skips(Val(config), canary)
       THEN /\ stdout' = Append(stdout, module)
            /\ lst' = Append(lst, None)
            /\ idx' = idx + 1
            /\ UNCHANGED <<pc, raised, ENUM_EXTS, missing>>
       ELSE \E exists \in ExistsAnswers(path) :
            LET enumExists == module \in host.enum_sources
                e == make_extension(Val(config), FMT_ENUM, module, Val(SOURCE_EXT),
                                    <<"gssapi/raw/">>, enumExists)
                r == make_extension(Val(config), FMT_EXT, module, Val(SOURCE_EXT),
                                    <<>>, exists)
            IN
            /\ ENUM_EXTS' = IF IsNone(e.raised) THEN Append(ENUM_EXTS, Val(e.ext))
                            ELSE ENUM_EXTS
            /\ missing' = missing \cup (IF enumExists THEN {} ELSE {enumPath})
                                  \cup (IF exists THEN {} ELSE {path})
            /\ IF ~IsNone(r.raised)
               THEN Abort(Val(r.raised)) /\ UNCHANGED <<idx, lst>>
               ELSE /\ lst' = Append(lst, r.ext)
                    /\ idx' = idx + 1
                    /\ UNCHANGED <<pc, raised>>
            /\ UNCHANGED stdout
    /\ UNCHANGED <<host, environ, markerFile, SOURCE_EXT, variant, config, probe,
                   res, ext_modules, sdistState, dist>>

\* gssapi_modules is entered with the finished list (line 317)
GssapiModulesEnter ==
    /\ pc = "catalogue"
    /\ idx = Len(CATALOGUE)
    /\ res' = FilterNone(lst)
    /\ idx' = 0
    /\ pc' = "mechs"
    /\ UNCHANGED <<host, environ, markerFile, SOURCE_EXT, variant, config, probe, raised,
                   lst, ENUM_EXTS, ext_modules, stdout, missing, sdistState, dist>>

\* one item of the generator of lines 320-323
MechFile ==
    /\ pc = "mechs"
    /\ idx < Len(Mechs(environ))
    /\ LET mech == Mechs(environ)[idx + 1]
           path == SourcePath(FMT_MECH, mech, Val(SOURCE_EXT))
       IN \E exists \in ExistsAnswers(path) :
          LET r == make_extension(Val(config), FMT_MECH, mech, Val(SOURCE_EXT), <<>>, exists) IN
          /\ missing' = IF exists THEN missing ELSE missing \cup {path}
          /\ IF ~IsNone(r.raised)
             THEN Abort(Val(r.raised)) /\ UNCHANGED <<idx, res>>
             ELSE /\ res' = Extend(res, r.ext)
                  /\ idx' = idx + 1
                  /\ UNCHANGED <<pc, raised>>
    /\ UNCHANGED <<host, environ, markerFile, SOURCE_EXT, variant, config, probe,
                   lst, ENUM_EXTS, ext_modules, stdout, sdistState, dist>>

\* lines 326-328, and the call of setup() with the list returned
GssapiModulesReturn ==
    /\ pc = "mechs"
    /\ idx = Len(Mechs(environ))
    /\ res' = Extend(res, ENUM_EXTS)
    /\ ext_modules' = Some(res')
    /\ pc' = "setup"
    /\ UNCHANGED <<host, environ, markerFile, SOURCE_EXT, variant, config, probe, raised,
                   idx, lst, ENUM_EXTS, stdout, missing, sdistState, dist>>

----------------------------------------------------------------------------
(* The machines and environments the script is run on.                     *)

Canaries == {CATALOGUE[i].canary : i \in {j \in 1..Len(CATALOGUE) : CATALOGUE[j].kind = "ext"}}

\* a Linux host with MIT krb5: krb5-config answers, the library loads
LinuxHost ==
    [os_name |-> "posix", sys_platform |-> "linux", mac_ver |-> <<>>,
     cython_importable |-> TRUE,
     krb5_libs |-> Some(<<"-", "L", "/", "a", " ", "-", "l", "g", "s", "s", "a", "p", "i",
                          "_krb5", " ", "-", "l", "k", "rb5">>),
     krb5_cflags |-> Some(<<"-", "I", "/", "i">>),
     ext_h_exists |-> TRUE,
     find_library_GSS |-> None,
     mingw_lib_exists |-> FALSE,
     pf_krb_exists |-> FALSE, pf_krb_path |-> <<"C", ":", "/", "PF/MIT/Kerberos">>,
     kinit_root |-> None,
     win_libs |-> <<>>,
     ARCH |-> 64,
     cdll_loads |-> TRUE,
     lib_symbols |-> Canaries,
     enum_sources |-> {"dce", "iov_mic"}]

NoEnviron ==
    [GSSAPI_LINKER_ARGS |-> None, GSSAPI_COMPILER_ARGS |-> None,
     GSSAPI_SUPPORT_DETECT |-> None, GSSAPI_MAIN_LIB |-> None,
     GSSAPI_MECHS |-> None, MINGW_PREFIX |-> None]

Idle == [pc |-> "idle"]

\* inputs is a set of triples <<host, environ, marker file present>>
InitScript(start, inputs) ==
    /\ pc = start
    /\ \E in \in inputs :
          /\ host = in[1]
          /\ environ = in[2]
          /\ markerFile = in[3]
    /\ SOURCE_EXT = None
    /\ variant = None
    /\ config = None
    /\ probe = NoProbe
    /\ raised = None
    /\ idx = 0
    /\ lst = <<>>
    /\ ENUM_EXTS = <<>>
    /\ res = <<>>
    /\ ext_modules = None
    /\ stdout = <<>>
    /\ missing = {}
    /\ sdistState = Idle
    /\ dist = Idle

\* the libraries the script may find: all canaries but at most MaxAbsent
Libraries == {Canaries \ absent : absent \in {a \in SUBSET Canaries : Cardinality(a) <= MaxAbsent}}

\* the optional modules that have a companion source in the working tree
EnumSources == {{}, {"dce", "iov_mic"},
                {CATALOGUE[i].module : i \in {j \in 1..Len(CATALOGUE) : CATALOGUE[j].kind = "ext"}}}

MechsValues == {None, Some(<<"krb5", ",", "ntlm">>), Some(<<"ntlm", ",">>)}

\* Runs that differ in the library and the mechanisms, and runs on a
\* complete library that differ in the rest.
ScriptInputs ==
    {<<[LinuxHost EXCEPT !.lib_symbols = syms, !.enum_sources = en],
        [NoEnviron EXCEPT !.GSSAPI_MECHS = m], mk>> :
        syms \in Libraries, en \in EnumSources,
        m \in {None, Some(<<"krb5", ",", "ntlm">>)}, mk \in BOOLEAN}
    \cup {<<[LinuxHost EXCEPT !.cython_importable = cy], [NoEnviron EXCEPT !.GSSAPI_MECHS = m], mk>> :
        cy \in BOOLEAN, m \in MechsValues, mk \in BOOLEAN}
    \cup {<<[LinuxHost EXCEPT !.lib_symbols = syms],
            [NoEnviron EXCEPT !.GSSAPI_SUPPORT_DETECT = Some("false")], FALSE>> :
        syms \in {{}, Canaries}}
    \cup {<<h, NoEnviron, FALSE>> :
        h \in {[LinuxHost EXCEPT !.cdll_loads = FALSE],
               [LinuxHost EXCEPT !.sys_platform = "darwin",
                                 !.mac_ver = <<"1", "0", ".", "7", ".", "0">>],
               [LinuxHost EXCEPT !.sys_platform = "darwin", !.mac_ver = <<>>]}}

Init == InitScript("source_ext", ScriptInputs)

Next ==
    \/ SelectSourceExtStep
    \/ ChooseConfig
    \/ ConstructConfig
    \/ MainFile
    \/ ExtensionFile
    \/ GssapiModulesEnter
    \/ MechFile
    \/ GssapiModulesReturn

Spec == Init /\ [][Next]_vars

----------------------------------------------------------------------------
(* Properties of the script.                                               *)

CoreModules == {CATALOGUE[i].module : i \in {j \in 1..Len(CATALOGUE) : CATALOGUE[j].kind = "main"}}
OptionalEntries == {CATALOGUE[i] : i \in {j \in 1..Len(CATALOGUE) : CATALOGUE[j].kind = "ext"}}
OptionalModules == {e.module : e \in OptionalEntries}

CoreNames == {"gssapi.raw." \o m : m \in CoreModules}
OptionalNames == {"gssapi.raw.ext_" \o m : m \in OptionalModules}
CompanionNames == {"gssapi.raw._enum_extensions.ext_" \o m : m \in OptionalModules}

\* the names of the list handed to setup(), in order
HandedNames == [i \in 1..Len(Val(ext_modules)) |-> Val(ext_modules)[i].name]
HandedNameSet == {HandedNames[i] : i \in 1..Len(HandedNames)}

\* detection as the claims state it: on unless the variable is set to
\* something other than 'true' in any case
DetectionOn ==
    \/ IsNone(environ.GSSAPI_SUPPORT_DETECT)
    \/ Val(environ.GSSAPI_SUPPORT_DETECT) \in {"true", "True", "TRUE", "tRuE"}

Printed == {stdout[i] : i \in 1..Len(stdout)}

\* C2: once the list is handed to setup(), an optional module is in it if
\* and only if detection is off or the library has the module's canary; a
\* module that is left out has no companion in the list and was named in a
\* skip diagnostic, and no other module was; every core module is in the list.
C2_OptionalGating ==
    pc = "setup" =>
        /\ \A e \in OptionalEntries :
              /\ ("gssapi.raw.ext_" \o e.module \in HandedNameSet)
                    <=> (~DetectionOn \/ e.canary \in host.lib_symbols)
              /\ (DetectionOn /\ e.canary \notin host.lib_symbols) =>
                    /\ "gssapi.raw._enum_extensions.ext_" \o e.module \notin HandedNameSet
                    /\ e.module \in Printed
              /\ e.module \in Printed => (DetectionOn /\ e.canary \notin host.lib_symbols)
        /\ CoreNames \subseteq HandedNameSet

C2_Witness ==
    /\ pc = "setup"
    /\ DetectionOn
    /\ \E e \in OptionalEntries : e.canary \notin host.lib_symbols
    /\ \E e \in OptionalEntries : "gssapi.raw.ext_" \o e.module \in HandedNameSet
    /\ Len(ENUM_EXTS) > 0

ExpectedExt == IF markerFile THEN "c" ELSE IF host.cython_importable THEN "pyx" ELSE "c"

\* the module texts a mechanism name takes in the runs modelled
MechModules == {"krb5", "ntlm", ""}

SourcesOfFormat(e) ==
    {"gssapi/raw/" \o m \o "." \o e : m \in CoreModules}
    \cup {"gssapi/raw/ext_" \o m \o "." \o e : m \in OptionalModules}
    \cup {"gssapi/raw/_enum_extensions/ext_" \o m \o "." \o e : m \in OptionalModules}
    \cup {"gssapi/raw/mech_" \o m \o "." \o e : m \in MechModules}

SourcesWith == [e \in {"c", "pyx"} |-> SourcesOfFormat(e)]

\* C3: the extension is c when the marker file exists, whether or not Cython
\* can be imported, and otherwise pyx exactly when Cython can be imported;
\* every extension created has its one source in that format.
C3_SourceFormat ==
    ~IsNone(SOURCE_EXT) =>
        /\ Val(SOURCE_EXT) = ExpectedExt
        /\ \A e \in Created :
              Len(e.sources) = 1 /\ e.sources[1] \in SourcesWith[ExpectedExt]

C3_Witness ==
    /\ pc = "setup"
    /\ markerFile
    /\ host.cython_importable
    /\ SOURCE_EXT = Some("c")
    /\ Len(Val(ext_modules)) > Cardinality(CoreModules)

CompanionSources ==
    {"gssapi/raw/_enum_extensions/ext_" \o m \o "." \o e : m \in OptionalModules, e \in {"c", "pyx"}}

\* C4: when a source other than a companion's is missing the script has
\* ended with OSError and nothing was handed to setup(); a list handed to
\* setup() has no extension whose source is missing.
C4_MissingSourceFatal ==
    /\ (missing \ CompanionSources # {}) =>
          /\ pc = "aborted"
          /\ raised = Some("OSError")
          /\ IsNone(ext_modules)
    /\ ~IsNone(ext_modules) =>
          \A i \in 1..Len(Val(ext_modules)) :
              \A j \in 1..Len(Val(ext_modules)[i].sources) :
                  Val(ext_modules)[i].sources[j] \notin missing

C4_Witness ==
    /\ pc = "aborted"
    /\ raised = Some("OSError")
    /\ \E m \in CoreModules : "gssapi/raw/" \o m \o ".pyx" \in missing
    /\ Len(lst) > 0
    /\ IsNone(ext_modules)

\* the fields of a comma-separated value, by the positions of its commas
FieldsOf(value) ==
    LET commas == {i \in 1..Len(value) : value[i] = ","}
        n == Cardinality(commas)
        \* position of the k-th comma; 0 before the first, Len + 1 after the last
        at(k) == IF k = 0 THEN 0
                 ELSE IF k = n + 1 THEN Len(value) + 1
                 ELSE CHOOSE i \in commas : Cardinality({c \in commas : c < i}) = k - 1
    IN [k \in 1..(n + 1) |-> SubSeq(value, at(k - 1) + 1, at(k) - 1)]

ExpectedMechNames ==
    LET value == IF IsNone(environ.GSSAPI_MECHS) THEN <<"krb5">> ELSE Val(environ.GSSAPI_MECHS)
    IN [k \in 1..Len(FieldsOf(value)) |-> "gssapi.raw.mech_" \o Flat(FieldsOf(value)[k])]

HandedCore == SelectSeq(HandedNames, LAMBDA n : n \in CoreNames)
HandedOptional == SelectSeq(HandedNames, LAMBDA n : n \in OptionalNames)
HandedCompanions == SelectSeq(HandedNames, LAMBDA n : n \in CompanionNames)
HandedMechs ==
    SelectSeq(HandedNames, LAMBDA n : n \notin CoreNames \cup OptionalNames \cup CompanionNames)

\* the place in the catalogue of the module an extension name is made from
CatalogueIndex ==
    [n \in CoreNames \cup OptionalNames \cup CompanionNames |->
        CHOOSE k \in 1..Len(CATALOGUE) :
            n \in {"gssapi.raw." \o CATALOGUE[k].module,
                   "gssapi.raw.ext_" \o CATALOGUE[k].module,
                   "gssapi.raw._enum_extensions.ext_" \o CATALOGUE[k].module}]

InCatalogueOrder(names) ==
    \A i, j \in 1..Len(names) : i < j => CatalogueIndex[names[i]] < CatalogueIndex[names[j]]

CoreNamesInOrder == [i \in 1..Cardinality(CoreModules) |-> "gssapi.raw." \o CATALOGUE[i].module]

GroupsInOrder ==
    /\ HandedCore = CoreNamesInOrder
    /\ InCatalogueOrder(HandedOptional)
    /\ InCatalogueOrder(HandedCompanions)
    /\ HandedMechs = ExpectedMechNames

\* C6 as stated: core, then mechanisms, then optional modules and companions.
C6_Original ==
    pc = "setup" =>
        /\ HandedNames = HandedCore \o HandedMechs \o HandedOptional \o HandedCompanions
        /\ GroupsInOrder

\* C6, amended: the list handed to setup() is the core extensions, then the
\* optional extensions that were built, then the mechanism extensions, then
\* the companions, each group in catalogue order.
C6_Order ==
    pc = "setup" =>
        /\ HandedNames = HandedCore \o HandedOptional \o HandedMechs \o HandedCompanions
        /\ GroupsInOrder

C6_Witness ==
    /\ pc = "setup"
    /\ Len(HandedOptional) > 1
    /\ Len(HandedMechs) > 1
    /\ Len(HandedCompanions) > 0
    /\ Len(HandedOptional) < Cardinality(OptionalModules)

\* C9: the mechanism extensions handed to setup() are one per field of the
\* comma-separated GSSAPI_MECHS (krb5 when unset), named mech_<field>, in the
\* order given, whatever detection and the library say; two for krb5,ntlm.
C9_Mechs ==
    pc = "setup" =>
        /\ HandedMechs = ExpectedMechNames
        /\ IsNone(environ.GSSAPI_MECHS) => HandedMechs = <<"gssapi.raw.mech_krb5">>
        /\ environ.GSSAPI_MECHS = Some(<<"krb5", ",", "ntlm">>) =>
              HandedMechs = <<"gssapi.raw.mech_krb5", "gssapi.raw.mech_ntlm">>

C9_Witness ==
    /\ pc = "setup"
    /\ environ.GSSAPI_MECHS = Some(<<"krb5", ",", "ntlm">>)
    /\ DetectionOn
    /\ host.lib_symbols # Canaries
    /\ Len(HandedMechs) = 2

----------------------------------------------------------------------------
(* The choice of the class, over the platforms and version texts.          *)

\* bound on the length of the text of platform.mac_ver()[0]
MaxVerLen == 6

VerChars == {"0", "1", "7", "."}

VerTexts == UNION {[1..n -> VerChars] : n \in 0..MaxVerLen}

PlatformInputs ==
    {<<[LinuxHost EXCEPT !.os_name = os, !.sys_platform = pf, !.mac_ver = ver], NoEnviron, FALSE>> :
        os \in {"nt", "posix"}, pf \in {"darwin", "msys", "linux"}, ver \in VerTexts}

InitPlatform == InitScript("source_ext", PlatformInputs)

NextPlatform ==
    \/ SelectSourceExtStep
    \/ ChooseConfig

SpecPlatform == InitPlatform /\ [][NextPlatform]_vars

\* a version text of dot-separated decimal numbers
WellFormedVersion == ~IsNone(MacVerList(host.mac_ver))

\* the version is 10.7 or later, a component not reported counting as 0
AtLeast_10_7 ==
    LET v == Val(MacVerList(host.mac_ver)) IN
    \/ v[1] > 10
    \/ v[1] = 10 /\ Len(v) >= 2 /\ v[2] >= 7

\* C1: once the choice is made, exactly one class is chosen: Windows for
\* os.name nt; else Darwin for platform darwin and a version of 10.7 or
\* later, however many components it is reported with; else MSYS for
\* platform msys; else the default.
C1_VariantSelection ==
    (pc \notin {"source_ext", "choose_config"}
        /\ (host.os_name = "nt" \/ host.sys_platform # "darwin" \/ WellFormedVersion)) =>
        variant = Some(IF host.os_name = "nt" THEN "WindowsConfig"
                       ELSE IF host.sys_platform = "darwin" /\ AtLeast_10_7
                       THEN "DarwinGSSFrameWorkConfig"
                       ELSE IF host.sys_platform = "msys" THEN "MSYSConfig"
                       ELSE "Config")

----------------------------------------------------------------------------
(* The construction of the configuration, over linker arguments, hosts and *)
(* environments.                                                           *)

\* bound on the number of tokens of GSSAPI_LINKER_ARGS
MaxTokens == 3

T_dir == <<"-", "L", "/", "a">>
T_foo == <<"-", "l", "f", "o", "o">>
T_rpath == <<"-", "W", "l", ",", "-", "r", "p", "a", "t", "h", ",", "/", "b">>
T_gssapi == <<"-", "l", "g", "s", "s", "a", "p", "i">>
T_wlpath == <<"-", "W", "l", ",", "/", "o">>

\* the empty token makes a leading, trailing or doubled blank
Vocabulary == {<<>>, T_dir, T_foo, T_rpath, T_gssapi}

LinkerTexts == {JoinChars(toks, " ") : toks \in UNION {[1..n -> Vocabulary] : n \in 0..MaxTokens}}

DarwinHost == [LinuxHost EXCEPT !.sys_platform = "darwin",
                                !.mac_ver = <<"1", "0", ".", "7", ".", "0">>]
WindowsHost == [LinuxHost EXCEPT !.os_name = "nt", !.sys_platform = "win32",
                                 !.win_libs = << <<"g", "s", "s", "a", "p", "i", "64", ".", "lib">>,
                                                 <<"k", "r", "b", "5", "_", "6", "4", ".", "lib">> >>]
MsysHost == [LinuxHost EXCEPT !.sys_platform = "msys"]

\* pairs <<host, environ>>, one group for each class
Platforms ==
    {<<[LinuxHost EXCEPT !.krb5_libs = k], NoEnviron>> :
        k \in {None, LinuxHost.krb5_libs, Some(T_foo \o <<" ">> \o T_wlpath)}}
    \cup {<<[DarwinHost EXCEPT !.find_library_GSS = f], NoEnviron>> :
        f \in {None, Some(<<"/", "S", "ystem/Library/Frameworks/GSS.framework/GSS">>)}}
    \cup {<<[WindowsHost EXCEPT !.pf_krb_exists = pf, !.kinit_root = k, !.win_libs = w, !.ARCH = a],
            NoEnviron>> :
        pf \in BOOLEAN, k \in {None, Some(<<"C", ":", "/", "krb">>)},
        w \in {WindowsHost.win_libs, << <<"c", "o", "m", "e", "r", "r", ".", "lib">> >>},
        a \in {64, 32}}
    \cup {<<[MsysHost EXCEPT !.mingw_lib_exists = e, !.krb5_libs = Some(<<"-", "l", "g", "s", "s">>)],
            [NoEnviron EXCEPT !.MINGW_PREFIX = p]>> :
        e \in BOOLEAN, p \in {None, Some(<<"/", "m", "ingw64">>)}}

DetectValues == {None, Some("true"), Some("TRUE"), Some("false"), Some("")}

ConfigInputs ==
    {<<p[1], [p[2] EXCEPT !.GSSAPI_LINKER_ARGS = l, !.GSSAPI_SUPPORT_DETECT = d], FALSE>> :
        p \in Platforms, l \in {None} \cup {Some(t) : t \in LinkerTexts},
        d \in {None, Some("false")}}
    \cup {<<[p[1] EXCEPT !.cdll_loads = loads],
            [p[2] EXCEPT !.GSSAPI_LINKER_ARGS = l, !.GSSAPI_SUPPORT_DETECT = d,
                         !.GSSAPI_MAIN_LIB = m], FALSE>> :
        p \in Platforms, l \in {None, Some(T_gssapi), Some(T_foo)}, d \in DetectValues,
        m \in {None, Some(<<"/", "m">>), Some(<<>>)}, loads \in BOOLEAN}

InitConfig == InitScript("source_ext", ConfigInputs)

\* the first entry of the list literal: the first use of the object
FirstMainFile == idx = 0 /\ MainFile

NextConfig ==
    \/ SelectSourceExtStep
    \/ ChooseConfig
    \/ ConstructConfig
    \/ FirstMainFile

SpecConfig == InitConfig /\ [][NextConfig]_vars

\* the constructor of the chosen class has run
AfterConstruct == ~IsNone(variant) /\ pc \in {"catalogue", "aborted"}

\* the raw linker arguments as the claim states them: the override if it is
\* not empty, else the default of the class; None when the default fails
RawLinkerTokens ==
    IF ~IsNone(environ.GSSAPI_LINKER_ARGS) /\ Val(environ.GSSAPI_LINKER_ARGS) # <<>>
    THEN Some(shlex_split(Val(environ.GSSAPI_LINKER_ARGS)))
    ELSE IF IsNone(default_link_args(Val(variant), host, environ)) THEN None
    ELSE Some(shsplit(Val(default_link_args(Val(variant), host, environ))))

IsDirToken(t) == Len(t) >= 2 /\ t[1] = "-" /\ t[2] = "L"
IsLibToken(t) == Len(t) >= 2 /\ t[1] = "-" /\ t[2] = "l"

Stripped(toks) == [i \in 1..Len(toks) |-> [j \in 1..(Len(toks[i]) - 2) |-> toks[i][j + 2]]]

ExampleLinkerText == JoinChars(<<T_dir, T_foo, T_rpath>>, " ")

\* C8: in a constructed Config the -L tokens of the raw linker arguments
\* are library_dirs and the -l tokens are libraries, both without the
\* prefix, the other tokens are link_args unchanged, each list in the order
\* of the input, and the three lists hold as many tokens as the input;
\* '-L/a -lfoo -Wl,-rpath,/b' gives ['/a'], ['foo'], ['-Wl,-rpath,/b'].
C8_LinkerPartition ==
    ~IsNone(config) =>
        LET toks == Val(RawLinkerTokens)
            c == Val(config)
        IN /\ c.library_dirs = Stripped(SelectSeq(toks, IsDirToken))
           /\ c.libraries = Stripped(SelectSeq(toks, IsLibToken))
           /\ c.link_args = SelectSeq(toks, LAMBDA t : ~IsDirToken(t) /\ ~IsLibToken(t))
           /\ Len(c.library_dirs) + Len(c.libraries) + Len(c.link_args) = Len(toks)
           /\ environ.GSSAPI_LINKER_ARGS = Some(ExampleLinkerText) =>
                 /\ c.library_dirs = << <<"/", "a">> >>
                 /\ c.libraries = << <<"f", "o", "o">> >>
                 /\ c.link_args = << T_rpath >>

C8_Witness ==
    /\ ~IsNone(config)
    /\ environ.GSSAPI_LINKER_ARGS = Some(ExampleLinkerText)
    /\ Val(config).library_dirs = << <<"/", "a">> >>
    /\ Val(config).libraries = << <<"f", "o", "o">> >>
    /\ Val(config).link_args = << T_rpath >>

\* the path the constructor is to load, as the claim states it
ExpectedMainLib ==
    IF ~IsNone(environ.GSSAPI_MAIN_LIB) THEN environ.GSSAPI_MAIN_LIB
    ELSE gssapi_lib_path(Val(variant), Partition(Val(RawLinkerTokens)), host, environ)

\* the constructor came as far as the detection of lines 72-89
ReachedDetection ==
    /\ ~(Val(variant) = "WindowsConfig" /\ IsNone(find_krb(host)))
    /\ ~IsNone(RawLinkerTokens)
    /\ ~IsNone(default_compile_args(Val(variant), host, environ))

\* C7: detection is on unless GSSAPI_SUPPORT_DETECT is set to something
\* other than 'true' in any case.  When on, the path is GSSAPI_MAIN_LIB if
\* set and else what the class discovers; without a path, or when the load
\* fails, the constructor raises, there is no Config and no extension is
\* ever created.  When off, no path is resolved, nothing is loaded and
\* gssapi_lib is None.
C7_DetectionGate ==
    (AfterConstruct /\ ReachedDetection) =>
        /\ ~IsNone(config) => Val(config).enable_support_detect = DetectionOn
        /\ DetectionOn =>
              /\ probe.resolved /\ probe.main_lib = ExpectedMainLib
              /\ IF IsNone(ExpectedMainLib)
                 THEN /\ raised = Some("Exception") /\ probe.cdll_calls = <<>>
                 ELSE /\ probe.cdll_calls = <<Val(ExpectedMainLib)>>
                      /\ IF host.cdll_loads
                         THEN ~IsNone(config) /\ ~IsNone(Val(config).gssapi_lib)
                         ELSE raised = Some("OSError")
              /\ (IsNone(ExpectedMainLib) \/ ~host.cdll_loads) =>
                    /\ pc = "aborted" /\ IsNone(config)
                    /\ lst = <<>> /\ ENUM_EXTS = <<>> /\ IsNone(ext_modules)
        /\ ~DetectionOn =>
              /\ ~probe.resolved /\ IsNone(probe.main_lib) /\ probe.cdll_calls = <<>>
              /\ ~IsNone(config) /\ IsNone(Val(config).gssapi_lib)

C7_Witness ==
    /\ AfterConstruct /\ ReachedDetection
    /\ DetectionOn
    /\ environ.GSSAPI_SUPPORT_DETECT = Some("TRUE")
    /\ IsNone(environ.GSSAPI_MAIN_LIB)
    /\ IsNone(ExpectedMainLib)
    /\ raised = Some("Exception")
    /\ pc = "aborted"

----------------------------------------------------------------------------
(* The sdist hook (lines 239-247), over runs of setup.py in one working    *)
(* tree.                                                                   *)

\* bound on the runs of setup.py in the working tree
MaxRuns == 3

sdist_run_keeping_marker(st, marker, ok) ==
    CASE st.pc = "hook" ->
            IF ~st.dry_run
            THEN [st |-> [st EXCEPT !.pc = "packaging"], marker |-> TRUE]
            ELSE [st |-> [st EXCEPT !.pc = "ended"], marker |-> marker]
      [] st.pc = "packaging" ->
            IF ok
            THEN [st |-> [st EXCEPT !.pc = "packaged", !.produced = TRUE,
                                    !.archives = @ + 1], marker |-> marker]
            ELSE [st |-> [st EXCEPT !.pc = "ended", !.failed = TRUE], marker |-> marker]
      [] st.pc = "packaged" ->
            [st |-> [st EXCEPT !.pc = "ended"], marker |-> marker]

\* One step of sdist_gssapi.run from the state st of the hook and the state
\* marker of the file: the write of lines 242-243, sdist.run of line 245,
\* which returns (ok) with the archive made or raises, the remove of line
\* 247.
sdist_run(st, marker, ok) ==
    CASE st.pc = "hook" ->
            IF ~st.dry_run
            THEN [st |-> [st EXCEPT !.pc = "packaging"], marker |-> TRUE]
            ELSE [st |-> [st EXCEPT !.pc = "ended"], marker |-> marker]
      [] st.pc = "packaging" ->
            IF ok
            THEN [st |-> [st EXCEPT !.pc = "packaged", !.produced = TRUE,
                                    !.archives = @ + 1], marker |-> marker]
            ELSE [st |-> [st EXCEPT !.pc = "ended", !.failed = TRUE], marker |-> marker]
      [] st.pc = "packaged" ->
            [st |-> [st EXCEPT !.pc = "ended"], marker |-> FALSE]

treeVars == <<pc, environ, variant, config, probe, raised, idx, lst, ENUM_EXTS, res,
              ext_modules, stdout, missing, dist>>

InitTree ==
    /\ pc = "idle"
    /\ host \in {[LinuxHost EXCEPT !.cython_importable = cy] : cy \in BOOLEAN}
    /\ environ = NoEnviron
    /\ markerFile \in BOOLEAN
    /\ SOURCE_EXT = None
    /\ variant = None
    /\ config = None
    /\ probe = NoProbe
    /\ raised = None
    /\ idx = 0
    /\ lst = <<>>
    /\ ENUM_EXTS = <<>>
    /\ res = <<>>
    /\ ext_modules = None
    /\ stdout = <<>>
    /\ missing = {}
    /\ sdistState = [pc |-> "none", command |-> "none", dry_run |-> FALSE, run |-> 0,
                     produced |-> FALSE, failed |-> FALSE, archives |-> 0,
                     after_archive |-> FALSE]
    /\ dist = Idle

\* setup.py is started in the working tree: the source format is chosen
\* (lines 22-32) and the command line names the command
StartRun ==
    /\ sdistState.pc \in {"none", "ended"}
    /\ sdistState.run < MaxRuns
    /\ \E command \in {"sdist", "build_ext"}, dry \in BOOLEAN :
          sdistState' = [sdistState EXCEPT
                            !.pc = IF command = "sdist" THEN "hook" ELSE "ended",
                            !.command = command,
                            !.dry_run = dry,
                            !.run = @ + 1,
                            !.produced = FALSE,
                            !.failed = FALSE,
                            !.after_archive = sdistState.pc = "ended" /\ sdistState.produced]
    /\ SOURCE_EXT' = Some(SelectSourceExt(markerFile, host.cython_importable))
    /\ UNCHANGED <<host, markerFile>>
    /\ UNCHANGED treeVars

\* the next step of the hook
SdistStep ==
    /\ sdistState.pc \in {"hook", "packaging", "packaged"}
    /\ \E ok \in BOOLEAN :
          LET r == sdist_run(sdistState, markerFile, ok) IN
          /\ sdistState' = r.st
          /\ markerFile' = r.marker
    /\ UNCHANGED <<host, SOURCE_EXT>>
    /\ UNCHANGED treeVars

NextTree ==
    \/ StartRun
    \/ SdistStep

SpecTree == InitTree /\ [][NextTree]_vars

\* C5: in a run of the hook that makes an archive, the marker file exists
\* while sdist.run executes and when it has returned, and does not exist
\* once the hook has ended; the run of setup.py that follows such a run
\* chooses its source format by Cython alone.
C5_MarkerLifecycle ==
    /\ sdistState.pc \in {"packaging", "packaged"} => markerFile
    /\ (sdistState.pc = "ended" /\ sdistState.produced) => ~markerFile
    /\ (sdistState.run > 0 /\ sdistState.after_archive) =>
          SOURCE_EXT = Some(IF host.cython_importable THEN "pyx" ELSE "c")

C5_Witness ==
    /\ sdistState.pc = "ended"
    /\ sdistState.command = "build_ext"
    /\ sdistState.after_archive
    /\ sdistState.archives > 0
    /\ ~markerFile
    /\ SOURCE_EXT = Some("pyx")

----------------------------------------------------------------------------
(* GSSAPIDistribution (lines 250-285).                                     *)

DONT_CYTHONIZE_FOR == {"clean"}

\* bound on the calls of cythonize counted
MaxCalls == 3

\* the C file Cython writes for a source, for the sources of this model
CFileOf(source) ==
    CASE source = "gssapi/raw/misc.pyx" -> "gssapi/raw/misc.c"
      [] source = "gssapi/raw/creds.pyx" -> "gssapi/raw/creds.c"
      [] source = "gssapi/raw/ext_dce.pyx" -> "gssapi/raw/ext_dce.c"
      [] OTHER -> source

\* Cython.Build.cythonize: new extensions, each with its C file as source
cythonize(mods) ==
    [i \in 1..Len(mods) |->
        [mods[i] EXCEPT !.sources = [j \in 1..Len(mods[i].sources) |-> CFileOf(mods[i].sources[j])]]]

set_ext_modules_keeping_cache(obj, mods) ==
    [obj EXCEPT !._ext_modules = mods]

\* the setter (lines 277-280); mods is None or <<list>>
set_ext_modules(obj, mods) ==
    [obj EXCEPT !._cythonized_ext_modules = None, !._ext_modules = mods]

\* run_command (lines 254-256), as far as it changes the object itself
run_command(obj, command) ==
    [obj EXCEPT !._last_run_command = Some(command)]

\* the getter (lines 258-275): the value returned, the object afterwards and
\* the number of calls of cythonize it made
get_ext_modules(obj, source_ext) ==
    IF source_ext # "pyx"
    THEN [value |-> obj._ext_modules, obj |-> obj, calls |-> 0]
    ELSE IF IsNone(obj._ext_modules)
    THEN [value |-> None, obj |-> obj, calls |-> 0]
    ELSE IF ~IsNone(obj._last_run_command) /\ Val(obj._last_run_command) \in DONT_CYTHONIZE_FOR
    THEN [value |-> obj._ext_modules, obj |-> obj, calls |-> 0]
    ELSE IF IsNone(obj._cythonized_ext_modules)
    THEN LET made == Some(cythonize(Val(obj._ext_modules))) IN
         [value |-> made, obj |-> [obj EXCEPT !._cythonized_ext_modules = made], calls |-> 1]
    ELSE [value |-> obj._cythonized_ext_modules, obj |-> obj, calls |-> 0]

PlainExtension(name, source) ==
    [name |-> name, extra_link_args |-> <<>>, extra_compile_args |-> <<>>,
     library_dirs |-> <<>>, libraries |-> <<>>, sources |-> <<source>>, include_dirs |-> <<>>]

\* the lists assigned: extensions as the script makes them for pyx
ModuleLists ==
    {<<PlainExtension("gssapi.raw.misc", "gssapi/raw/misc.pyx")>>,
     <<PlainExtension("gssapi.raw.misc", "gssapi/raw/misc.pyx"),
       PlainExtension("gssapi.raw.creds", "gssapi/raw/creds.pyx")>>,
     <<PlainExtension("gssapi.raw.ext_dce", "gssapi/raw/ext_dce.pyx")>>,
     <<>>}

Commands == {"clean", "build_ext", "sdist"}

distVars == <<pc, host, environ, markerFile, variant, config, probe, raised, idx, lst,
              ENUM_EXTS, res, ext_modules, stdout, missing, sdistState>>

\* the object after Distribution.__init__, which assigns ext_modules = None
InitDist ==
    /\ pc = "setup"
    /\ host = LinuxHost
    /\ environ = NoEnviron
    /\ markerFile = FALSE
    /\ SOURCE_EXT \in {Some("pyx"), Some("c")}
    /\ variant = None
    /\ config = None
    /\ probe = NoProbe
    /\ raised = None
    /\ idx = 0
    /\ lst = <<>>
    /\ ENUM_EXTS = <<>>
    /\ res = <<>>
    /\ ext_modules = None
    /\ stdout = <<>>
    /\ missing = {}
    /\ sdistState = Idle
    /\ dist = [obj |-> [_ext_modules |-> None, _cythonized_ext_modules |-> None,
                        _last_run_command |-> None],
               op |-> "init",          \* the last operation on the object
               returned |-> None,      \* what the last read returned
               calls |-> 0,            \* calls of cythonize since the last assignment
               stale |-> None]         \* cythonized form of an earlier assignment

SetExtModules ==
    /\ \E mods \in {None} \cup {Some(l) : l \in ModuleLists} :
          dist' = [dist EXCEPT !.obj = set_ext_modules(@, mods),
                               !.op = "set",
                               !.returned = None,
                               !.calls = 0,
                               !.stale = IF IsNone(dist.obj._cythonized_ext_modules)
                                            \/ mods = dist.obj._ext_modules
                                         THEN None
                                         ELSE dist.obj._cythonized_ext_modules]
    /\ UNCHANGED SOURCE_EXT
    /\ UNCHANGED distVars

RunCommand ==
    /\ \E command \in Commands :
          dist' = [dist EXCEPT !.obj = run_command(@, command), !.op = "run",
                               !.returned = None]
    /\ UNCHANGED SOURCE_EXT
    /\ UNCHANGED distVars

ReadExtModules ==
    /\ dist.calls < MaxCalls
    /\ LET r == get_ext_modules(dist.obj, Val(SOURCE_EXT)) IN
       dist' = [dist EXCEPT !.obj = r.obj, !.op = "get", !.returned = r.value,
                            !.calls = @ + r.calls]
    /\ UNCHANGED SOURCE_EXT
    /\ UNCHANGED distVars

NextDist ==
    \/ SetExtModules
    \/ RunCommand
    \/ ReadExtModules

SpecDist == InitDist /\ [][NextDist]_vars

\* the C form of a list, stated on its own
CForm(mods) ==
    [i \in 1..Len(mods) |->
        [name |-> mods[i].name, extra_link_args |-> <<>>, extra_compile_args |-> <<>>,
         library_dirs |-> <<>>, libraries |-> <<>>, include_dirs |-> <<>>,
         sources |-> << CASE mods[i].name = "gssapi.raw.misc" -> "gssapi/raw/misc.c"
                          [] mods[i].name = "gssapi.raw.creds" -> "gssapi/raw/creds.c"
                          [] mods[i].name = "gssapi.raw.ext_dce" -> "gssapi/raw/ext_dce.c" >>]]

\* C10: for pyx a read returns the list assigned last when the last command
\* run is clean, and else its cythonized form (None when None was
\* assigned); cythonize is called at most once between two assignments and
\* an assignment leaves no cached list.  For c a read returns the list
\* assigned last and cythonize is never called.
C10_ExtModulesCache ==
    LET assigned == dist.obj._ext_modules
        clean == dist.obj._last_run_command = Some("clean")
    IN
    /\ dist.op = "get" =>
          IF SOURCE_EXT = Some("c") THEN dist.returned = assigned
          ELSE IF IsNone(assigned) THEN IsNone(dist.returned)
          ELSE IF clean THEN dist.returned = assigned
          ELSE dist.returned = Some(CForm(Val(assigned)))
    /\ dist.calls <= 1
    /\ dist.op = "set" => IsNone(dist.obj._cythonized_ext_modules)
    /\ SOURCE_EXT = Some("c") =>
          dist.calls = 0 /\ IsNone(dist.obj._cythonized_ext_modules)

C10_Witness ==
    /\ SOURCE_EXT = Some("pyx")
    /\ dist.op = "get"
    /\ ~IsNone(dist.stale)
    /\ ~IsNone(dist.obj._ext_modules)
    /\ dist.obj._last_run_command = Some("build_ext")
    /\ dist.returned = Some(CForm(Val(dist.obj._ext_modules)))
    /\ dist.returned # dist.stale

====
